---- MODULE Spec2Model ----
(***************************************************************************)
(* The compound BeforeSuite node of ginkgo                                 *)
(* (internal/leafnodes/compound_before_suite_node.go): a fleet of          *)
(* parallel nodes, node 1 running the producer body (phase A) and          *)
(* publishing a RemoteState record, every other node polling the record,   *)
(* and each node running the consumer body (phase B) once phase A passed.  *)
(***************************************************************************)
EXTENDS Integers, Sequences, FiniteSets, TLC

(* ------------------------------ bounds --------------------------------- *)

\* The largest fleet: totalGinkgoNodes ranges over 1..MaxNodes.
MaxNodes == 3

\* The longest payload a producer body returns.
MaxLen == 1

(* ------------------------- RemoteStateState ---------------------------- *)

RemoteStateStateInvalid == 0
RemoteStateStatePending == 1
RemoteStateStatePassed == 2
RemoteStateStateFailed == 3
RemoteStateStateDisappeared == 4

RemoteStateState ==
    { RemoteStateStateInvalid, RemoteStateStatePending, RemoteStateStatePassed,
      RemoteStateStateFailed, RemoteStateStateDisappeared }

(* ------------------------------ values --------------------------------- *)

\* []byte values: sequences of the byte 7 of length at most MaxLen; <<>> is
\* the zero value of the data field.
Bytes == UNION { [1..k -> {7}] : k \in 0..MaxLen }

\* types.SpecState: the zero value and the outcomes a runner yields.
SpecStateInvalid == "Invalid"
SpecStatePassed == "Passed"
SpecStateFailed == "Failed"
SpecStateTimedOut == "TimedOut"

\* The outcomes of runner.run.
RunnerOutcomes ==
    { SpecStatePassed, SpecStateFailed, SpecStateTimedOut }

\* types.SpecFailure, reduced to its Message and Location.
NoFailure == [Message |-> "", Location |-> ""]

\* The failure runner.run reports with an outcome: none when it passed, else a
\* failure located where the body failed.
RunnerFailure(o) ==
    IF o = SpecStatePassed
    THEN NoFailure
    ELSE [Message |-> o, Location |-> "body"]

\* waitForA's failure closure: located at runnerA.codeLocation.
WaitFailure(message) == [Message |-> message, Location |-> "codeLocation"]

(* --------------------------- wire encoding ----------------------------- *)

\* RemoteState: the record of Data and State.
RemoteState(d, s) == [Data |-> d, State |-> s]

\* RemoteState.ToJSON: the JSON object, its two members in field order.
ToJSON(r) == << <<"Data", r.Data>>, <<"State", r.State>> >>

\* json.Unmarshal into a RemoteState: members are read by name.
Unmarshal(body) ==
    LET member(k) == (CHOOSE m \in { body[i] : i \in 1..Len(body) } : m[1] = k)[2]
    IN  RemoteState(member("Data"), member("State"))

(* ------------------------------ state ---------------------------------- *)

VARIABLES
    totalGinkgoNodes, \* the fleet's node count, the same on every node
    fleet,            \* the ordinals (ginkgoNode) of the nodes that run
    bodyA,            \* the bytes the producer body returns
    server,           \* the body the state endpoint serves on a GET
    pc,               \* each node's position in Run
    data,             \* node.data, the shared payload slot
    outcome,          \* node.outcome
    failure,          \* node.failure
    outcomeA,         \* the outcome of runA / waitForA on the node
    lateA,            \* node 1: the timed-out producer body is still running
    ranA,             \* the producer body was invoked on the node
    calledB,          \* <<d>> once the consumer body was invoked with d
    posts,            \* the records the node POSTed, in order
    lastGet,          \* the node's last GET: its response and the body read
    expired,          \* the runner timeout has elapsed since every node's Run began
    runResult,        \* what Run returned on the node, "none" before it returns
    writes,           \* who wrote node.data on the node, in order
    reads,            \* who read node.data on the node, in order
    outcomeB,         \* the outcome runnerB.run returned on the node
    adapter           \* a body handed to wrapA or wrapB, and how far it got

vars ==
    << totalGinkgoNodes, fleet, bodyA, server, pc, data, outcome, failure,
       outcomeA, lateA, ranA, calledB, posts, lastGet, expired, runResult,
       writes, reads, outcomeB, adapter >>

Ordinals == 1..MaxNodes

\* The record the endpoint serves before the first publish.
DefaultStates == { RemoteStateStateInvalid, RemoteStateStatePending }

\* No GET issued yet.
NoGet == [resp |-> "none", body |-> <<>>]

\* The longest parameter list and result list of a body handed to the
\* constructor.
MaxArity == 2

\* The Go types a body's parameters and results are drawn from: []byte, a
\* named type MyBytes whose underlying type is []byte, the Done channel
\* (chan<- interface{}) the wrappers are called with, chan error, and int.
Types == { "[]byte", "MyBytes", "Done", "chan error", "int" }

\* reflect.Type.Kind of a type.
Kind(t) ==
    CASE t \in { "[]byte", "MyBytes" } -> "Slice"
      [] t \in { "Done", "chan error" } -> "Chan"
      [] OTHER -> "Int"

\* The Kind of reflect.Type.Elem of a slice or channel type (error is an
\* interface type).
ElemKind(t) ==
    CASE Kind(t) = "Slice" -> "Uint8"
      [] Kind(t) = "Chan" -> "Interface"
      [] OTHER -> "none"

TypeLists == UNION { [1..k -> Types] : k \in 0..MaxArity }

\* A value that is not a function.
NotAFunc == [kind |-> "Int", in |-> <<>>, out |-> <<>>]

\* The values bodyA and bodyB (interface{}) may hold: a value that is not
\* a function, or a function with its parameter and result types.
Bodies == { NotAFunc } \cup [kind : { "Func" }, in : TypeLists, out : TypeLists]

\* A body handed to wrapA ("A") or wrapB ("B"): "new" before the wrapper
\* is built, "rejected" when wrapA / wrapB panicked, "constructed" when it
\* returned the closure, then "called" or "panicked" when the closure ran.
Adapters ==
    [role : { "A", "B" }, body : Bodies,
     stage : { "new", "rejected", "constructed", "called", "panicked" }]

\* The bodies of a fleet that runs: func() []byte, accepted by wrapA.
BuiltAdapter ==
    [role |-> "A",
     body |-> [kind |-> "Func", in |-> <<>>, out |-> << "[]byte" >>],
     stage |-> "constructed"]

InitFleet(total, nodes) ==
    /\ totalGinkgoNodes = total
    /\ fleet = nodes
    /\ bodyA \in Bytes
    /\ server \in { ToJSON(RemoteState(<<>>, s)) : s \in DefaultStates }
    /\ pc = [n \in Ordinals |-> "NotStarted"]
    /\ data = [n \in Ordinals |-> <<>>]
    /\ outcome = [n \in Ordinals |-> SpecStateInvalid]
    /\ failure = [n \in Ordinals |-> NoFailure]
    /\ outcomeA = [n \in Ordinals |-> SpecStateInvalid]
    /\ lateA = FALSE
    /\ ranA = [n \in Ordinals |-> FALSE]
    /\ calledB = [n \in Ordinals |-> <<>>]
    /\ posts = [n \in Ordinals |-> <<>>]
    /\ lastGet = [n \in Ordinals |-> NoGet]
    /\ expired = FALSE
    /\ runResult = [n \in Ordinals |-> "none"]
    /\ writes = [n \in Ordinals |-> <<>>]
    /\ reads = [n \in Ordinals |-> <<>>]
    /\ outcomeB = [n \in Ordinals |-> SpecStateInvalid]

\* A fleet of total nodes runs the ordinals 1..total.
Init ==
    /\ \E total \in 1..MaxNodes : InitFleet(total, 1..total)
    /\ adapter = BuiltAdapter

(* ----------------------------- operations ------------------------------ *)

\* A variant of line 69 that takes every node for the producer.
IsProducerEveryNode(n) == n >= 1

\* A variant of line 69 that also takes the node of a fleet of one for the
\* producer, whatever its ordinal.
IsProducerOrSingle(n) == n = 1 \/ totalGinkgoNodes = 1

\* Run, line 69: node 1 is the producer, every other node a follower.
IsProducer(n) == n = 1

\* A variant of line 75 that stops Run on the outcome Failed alone.
PhaseANotFailed(o) == o # SpecStateFailed

\* Run, line 75: phase B is reached only with phase A passed.
PhaseAPassed(o) == o = SpecStatePassed

\* A variant of line 86 that publishes in a fleet of one node too.
ShouldPublishAlways(total) == total >= 1

\* A variant of lines 87-90 that starts from Pending and sets Passed.
PublishedStatePendingUnlessPassed(o) ==
    IF o = SpecStatePassed THEN RemoteStateStatePassed ELSE RemoteStateStatePending

\* A variant of line 86 that publishes only in a fleet of more than two nodes.
ShouldPublishAboveTwo(total) == total > 2

\* runA, line 86: the record is published only in a fleet of several nodes.
ShouldPublish(total) == total > 1

\* A variant of lines 87-90 that leaves the status at its initial Passed.
PublishedStateAlwaysPassed(o) == RemoteStateStatePassed

\* runA, lines 87-90: the status published for a phase-A outcome.
PublishedState(o) ==
    IF o # SpecStatePassed THEN RemoteStateStateFailed ELSE RemoteStateStatePassed

\* A variant of lines 204 and 209 that calls the consumer body with no bytes.
wrapBNoData(n) == <<>>

\* wrapB, lines 204 and 209: the consumer body is called with node.data.
wrapB(n) == data[n]

\* http.StatusOK.
StatusOK == 200

\* What a GET of the endpoint can yield: err is http.Get's error, StatusCode
\* the response's status, readErr the error of reading the body, and json
\* whether the body read is the JSON of the record the endpoint holds.
Response(k, e, c, r, j) ==
    [kind |-> k, err |-> e, StatusCode |-> c, readErr |-> r, json |-> j]

Responses ==
    { Response("networkError", TRUE, 0, FALSE, FALSE),
      Response("notOK", FALSE, 500, FALSE, FALSE),
      Response("readError", FALSE, StatusOK, TRUE, FALSE),
      Response("decodeError", FALSE, StatusOK, FALSE, FALSE),
      Response("decoded", FALSE, StatusOK, FALSE, TRUE) }

\* The messages of the failures waitForA builds.
FetchMessage == "Failed to fetch BeforeSuite state"
ReadMessage == "Failed to read BeforeSuite state"
DecodeMessage == "Failed to decode BeforeSuite state"
ProducerFailedMessage == "BeforeSuite on Node 1 failed"
DisappearedMessage == "Node 1 dissappeared before completing BeforeSuite"

\* What one iteration of waitForA's loop does: done says whether waitForA
\* returns (with outcome and failure), adopt whether node.data is set to the
\* record's Data.
Return(o, f, a) == [done |-> TRUE, outcome |-> o, failure |-> f, adopt |-> a]
Sleep == [done |-> FALSE, outcome |-> SpecStateInvalid, failure |-> NoFailure,
          adopt |-> FALSE]

\* A variant of line 113 that does not look at the status code.
fetchFailedOnErrorOnly(resp) == resp.err

\* waitForA, line 113: the GET failed.
fetchFailed(resp) == resp.err \/ resp.StatusCode # StatusOK

\* A variant of lines 130-132 that returns Passed without taking the Data.
onPassedKeepData == Return(SpecStatePassed, NoFailure, FALSE)

\* waitForA, lines 130-132: a Passed record is adopted.
onPassed == Return(SpecStatePassed, NoFailure, TRUE)

\* A variant of lines 133-134 that takes the Data of a Failed record.
onFailedAdopt == Return(SpecStateFailed, WaitFailure(ProducerFailedMessage), TRUE)

\* waitForA, lines 133-134: a Failed record fails phase A.
onFailed == Return(SpecStateFailed, WaitFailure(ProducerFailedMessage), FALSE)

\* A variant of lines 135-136 that reports a Disappeared record as a failure
\* of node 1's BeforeSuite.
onDisappearedAsFailed ==
    Return(SpecStateFailed, WaitFailure(ProducerFailedMessage), FALSE)

\* waitForA, lines 135-136: a Disappeared record fails phase A.
onDisappeared == Return(SpecStateFailed, WaitFailure(DisappearedMessage), FALSE)

\* A variant of lines 129-139 whose switch fails phase A on any other status.
onOtherFail == Return(SpecStateFailed, WaitFailure(DecodeMessage), FALSE)

\* waitForA, lines 129-139: no case of the switch matches any other status;
\* the loop sleeps and polls again.
onOther == Sleep

\* waitForA, lines 112-139: one iteration of the loop on a response; body is
\* the JSON the endpoint holds.
waitForAStep(resp, body) ==
    IF fetchFailed(resp)
    THEN Return(SpecStateFailed, WaitFailure(FetchMessage), FALSE)
    ELSE IF resp.readErr
    THEN Return(SpecStateFailed, WaitFailure(ReadMessage), FALSE)
    ELSE IF ~resp.json
    THEN Return(SpecStateFailed, WaitFailure(DecodeMessage), FALSE)
    ELSE LET r == Unmarshal(body)
         IN  CASE r.State = RemoteStateStatePassed -> onPassed
               [] r.State = RemoteStateStateFailed -> onFailed
               [] r.State = RemoteStateStateDisappeared -> onDisappeared
               [] OTHER -> onOther

\* A variant of line 92 that leaves the record's Data unset.
PublishedDataNone(n) == <<>>

\* runA, line 92: the record's Data is node.data.
PublishedData(n) == data[n]

\* A variant of lines 95-98 that fails phase A when the POST failed.
runAOutcomeChecked(o, delivered) == IF delivered THEN o ELSE SpecStateFailed

\* runA, lines 95-98: the result of http.Post is dropped; runA returns the
\* outcome of runnerA.run.
runAOutcome(o, delivered) == o

\* A variant of runA that POSTs before runnerA.run has returned.
runAReadyEarly(n) == pc[n] \in { "RunningA", "PublishA" }

\* runA, lines 84-86: the publish follows the return of runnerA.run.
runAReady(n) == pc[n] = "PublishA"

\* Run's return values, as runResult holds them.
BoolResult(b) == IF b THEN "true" ELSE "false"

\* Run, lines 75-77: Run returns false when phase A did not pass; before is
\* what Run had returned so far.
RunReturnAfterA(o, before) == IF PhaseAPassed(o) THEN before ELSE BoolResult(FALSE)

\* A variant of line 80 that returns true once phase B has run.
RunReturnTrueAfterB(o) == BoolResult(TRUE)

\* Run, line 80: after phase B, Run returns whether its outcome is Passed.
RunReturnAfterB(o) == BoolResult(o = SpecStatePassed)

\* Run, lines 75-78: where Run goes with phase A's outcome.
AfterA(o) == IF PhaseAPassed(o) THEN "RunningB" ELSE "Done"

\* Run, lines 63-73: the role is chosen by the ordinal.
Run(n) ==
    /\ UNCHANGED << outcomeB, adapter >>
    /\ pc[n] = "NotStarted"
    /\ pc' = [pc EXCEPT ![n] = IF IsProducer(n) THEN "RunningA" ELSE "AwaitingA"]
    /\ UNCHANGED << runResult, writes, reads >>
    /\ UNCHANGED << totalGinkgoNodes, fleet, bodyA, server, data, outcome,
                    failure, outcomeA, lateA, ranA, calledB, posts, lastGet, expired >>

\* runA, line 84: runnerA.run on the closure of wrapA (lines 173-183).  The
\* closure stores the bytes the body returned in node.data; a failing body
\* may not return at all, and a body that timed out is still running.
runnerA_run(n) ==
    /\ UNCHANGED << outcomeB, adapter >>
    /\ pc[n] = "RunningA"
    /\ \E o \in RunnerOutcomes, returned \in BOOLEAN :
        /\ o = SpecStatePassed => returned
        /\ o = SpecStateTimedOut => ~returned
        /\ outcomeA' = [outcomeA EXCEPT ![n] = o]
        /\ data' = [data EXCEPT ![n] = IF returned THEN bodyA ELSE @]
        /\ writes' = [writes EXCEPT ![n] = IF returned THEN Append(@, "wrapA") ELSE @]
        /\ lateA' = (o = SpecStateTimedOut)
    /\ ranA' = [ranA EXCEPT ![n] = TRUE]
    /\ pc' = [pc EXCEPT ![n] = "PublishA"]
    /\ UNCHANGED << runResult, reads >>
    /\ UNCHANGED << totalGinkgoNodes, fleet, bodyA, server, outcome, failure,
                    calledB, posts, lastGet,
                    expired >>

\* The body of a timed-out phase A returns after the runner gave up on it,
\* and the closure of wrapA (lines 176, 182) stores its bytes in node.data.
lateWriteA ==
    /\ UNCHANGED << outcomeB, adapter >>
    /\ lateA
    /\ lateA' = FALSE
    /\ data' = [data EXCEPT ![1] = bodyA]
    /\ writes' = [writes EXCEPT ![1] = Append(@, "wrapA")]
    /\ UNCHANGED << runResult, reads >>
    /\ UNCHANGED << totalGinkgoNodes, fleet, bodyA, server, pc, outcome,
                    failure, outcomeA, ranA, calledB, posts, lastGet,
                    expired >>

\* runA, lines 86-98, and Run, lines 70 and 75-77: the record is POSTed (the
\* POST's error is dropped: the record reaches the endpoint or it does not),
\* the outcome is stored, and Run goes on to phase B or returns false.
runA(n) ==
    /\ UNCHANGED << outcomeB, adapter >>
    /\ runAReady(n)
    /\ \E delivered \in BOOLEAN :
        LET json == ToJSON(RemoteState(PublishedData(n), PublishedState(outcomeA[n])))
            o == runAOutcome(outcomeA[n], delivered)
        IN  /\ IF ShouldPublish(totalGinkgoNodes)
               THEN /\ posts' = [posts EXCEPT ![n] = Append(@, json)]
                    /\ server' = IF delivered THEN json ELSE server
                    /\ reads' = [reads EXCEPT ![n] = Append(@, "runA")]
               ELSE /\ delivered
                    /\ UNCHANGED << posts, server, reads >>
            /\ outcome' = [outcome EXCEPT ![n] = o]
            /\ failure' = [failure EXCEPT ![n] = RunnerFailure(o)]
            /\ pc' = [pc EXCEPT ![n] = AfterA(o)]
            /\ runResult' = [runResult EXCEPT ![n] = RunReturnAfterA(o, @)]
    /\ UNCHANGED writes
    /\ UNCHANGED << totalGinkgoNodes, fleet, bodyA, data, outcomeA, lateA,
                    ranA, calledB, lastGet,
                    expired >>

\* waitForA, lines 111-140, one iteration, and Run, lines 72 and 75-77 when
\* waitForA returns.  An iteration that does not return sleeps and loops.
waitForA(n) ==
    /\ UNCHANGED << outcomeB, adapter >>
    /\ pc[n] = "AwaitingA"
    /\ \E resp \in Responses :
        LET step == waitForAStep(resp, server)
        IN  /\ lastGet' = [lastGet EXCEPT ![n] =
                             [resp |-> resp.kind,
                              body |-> IF resp.json THEN server ELSE <<>>]]
            /\ data' = [data EXCEPT ![n] =
                          IF step.adopt THEN Unmarshal(server).Data ELSE @]
            /\ writes' = [writes EXCEPT ![n] =
                            IF step.adopt THEN Append(@, "waitForA") ELSE @]
            /\ IF step.done
               THEN /\ outcomeA' = [outcomeA EXCEPT ![n] = step.outcome]
                    /\ outcome' = [outcome EXCEPT ![n] = step.outcome]
                    /\ failure' = [failure EXCEPT ![n] = step.failure]
                    /\ pc' = [pc EXCEPT ![n] = AfterA(step.outcome)]
                    /\ runResult' = [runResult EXCEPT ![n] =
                                       RunReturnAfterA(step.outcome, @)]
               ELSE UNCHANGED << outcomeA, outcome, failure, pc, runResult >>
    /\ UNCHANGED reads
    /\ UNCHANGED << totalGinkgoNodes, fleet, bodyA, server, lateA, ranA,
                    calledB, posts, expired >>

\* Run, lines 78-80: runnerB.run on the closure of wrapB (lines 202-210).
runnerB_run(n) ==
    /\ UNCHANGED adapter
    /\ pc[n] = "RunningB"
    /\ calledB' = [calledB EXCEPT ![n] = << wrapB(n) >>]
    /\ reads' = [reads EXCEPT ![n] = Append(@, "wrapB")]
    /\ \E o \in RunnerOutcomes :
        /\ outcome' = [outcome EXCEPT ![n] = o]
        /\ failure' = [failure EXCEPT ![n] = RunnerFailure(o)]
        /\ outcomeB' = [outcomeB EXCEPT ![n] = o]
        /\ runResult' = [runResult EXCEPT ![n] = RunReturnAfterB(o)]
    /\ UNCHANGED writes
    /\ pc' = [pc EXCEPT ![n] = "Done"]
    /\ UNCHANGED << totalGinkgoNodes, fleet, bodyA, server, data, outcomeA,
                    lateA, ranA, posts, lastGet,
                    expired >>

\* The liveness monitor of the endpoint: while nothing is published it may
\* report node 1 as gone.
serverDisappeared ==
    /\ UNCHANGED << outcomeB, adapter >>
    /\ Unmarshal(server).State \in DefaultStates
    /\ \E d \in Bytes :
        server' = ToJSON(RemoteState(d, RemoteStateStateDisappeared))
    /\ UNCHANGED << runResult, writes, reads >>
    /\ UNCHANGED << totalGinkgoNodes, fleet, bodyA, pc, data, outcome, failure,
                    outcomeA, lateA, ranA, calledB, posts, lastGet, expired >>

\* The step of node n's Run that is next.
NodeStep(n) ==
    \/ Run(n)
    \/ runnerA_run(n)
    \/ runA(n)
    \/ waitForA(n)
    \/ runnerB_run(n)

\* Time passes: the timeout given to the runners (line 50) has elapsed
\* since the last node of the fleet entered Run.
deadline ==
    /\ UNCHANGED << outcomeB, adapter >>
    /\ ~expired
    /\ \A n \in fleet : pc[n] # "NotStarted"
    /\ expired' = TRUE
    /\ UNCHANGED << runResult, writes, reads >>
    /\ UNCHANGED << totalGinkgoNodes, fleet, bodyA, server, pc, data, outcome,
                    failure, outcomeA, lateA, ranA, calledB, posts, lastGet >>

Next ==
    \/ \E n \in fleet : Run(n)
    \/ \E n \in fleet : runnerA_run(n)
    \/ lateWriteA
    \/ \E n \in fleet : runA(n)
    \/ \E n \in fleet : waitForA(n)
    \/ \E n \in fleet : runnerB_run(n)
    \/ serverDisappeared

Spec == Init /\ [][Next]_vars

\* The fleet with the passing of time observed.
TimedNext ==
    \/ \E n \in fleet : NodeStep(n)
    \/ lateWriteA
    \/ serverDisappeared
    \/ deadline

TimedSpec == Init /\ [][TimedNext]_vars

\* Nodes constructed with any ordinal and any totalGinkgoNodes, related or
\* not (lines 50-55 take both as given): a node of any ordinal runs alone
\* or alongside node 1.
AnyFleetInit ==
    /\ \E total \in 1..MaxNodes, n \in Ordinals, alone \in BOOLEAN :
         InitFleet(total, IF alone THEN { n } ELSE { 1, n })
    /\ adapter = BuiltAdapter

AnyFleetSpec == AnyFleetInit /\ [][Next]_vars

(* ------------------------- the wrappers' shapes ------------------------- *)

\* Everything but the adapter.
fleetVars ==
    << totalGinkgoNodes, fleet, bodyA, server, pc, data, outcome, failure,
       outcomeA, lateA, ranA, calledB, posts, lastGet, expired, runResult,
       writes, reads, outcomeB >>

\* wrapA, lines 165-167.
takesNothing(t) == Len(t.in) = 0

takesADoneChannel(t) ==
    /\ Len(t.in) = 1
    /\ Kind(t.in[1]) = "Chan"
    /\ ElemKind(t.in[1]) = "Interface"

returnsBytes(t) ==
    /\ Len(t.out) = 1
    /\ Kind(t.out[1]) = "Slice"
    /\ ElemKind(t.out[1]) = "Uint8"

\* wrapA, lines 161 and 169: the body is a function of an accepted shape.
wrapAAccepts(t) ==
    /\ t.kind = "Func"
    /\ (takesNothing(t) \/ takesADoneChannel(t)) /\ returnsBytes(t)

\* wrapB, lines 192-196.
returnsNothing(t) == Len(t.out) = 0

takesBytesOnly(t) ==
    /\ Len(t.in) = 1
    /\ Kind(t.in[1]) = "Slice" /\ ElemKind(t.in[1]) = "Uint8"

takesBytesAndDone(t) ==
    /\ Len(t.in) = 2
    /\ Kind(t.in[1]) = "Slice" /\ ElemKind(t.in[1]) = "Uint8"
    /\ Kind(t.in[2]) = "Chan" /\ ElemKind(t.in[2]) = "Interface"

\* wrapB, lines 188 and 198: the body is a function of an accepted shape.
wrapBAccepts(t) ==
    /\ t.kind = "Func"
    /\ (takesBytesOnly(t) \/ takesBytesAndDone(t)) /\ returnsNothing(t)

\* reflect.Value.Call, lines 175, 181, 204, 209: a value of type v can be
\* passed for a parameter of type t when v is assignable to t. []byte is
\* assignable to MyBytes (same underlying type, one of them unnamed); the
\* send-only channel Done is assignable to no other channel type.
AssignableTo(v, t) == v = t \/ (v = "[]byte" /\ t = "MyBytes")

\* Call panics when an argument cannot be passed for its parameter.
CallPanics(t, args) ==
    \/ Len(args) # Len(t.in)
    \/ \E i \in 1..Len(args) : ~AssignableTo(args[i], t.in[i])

\* wrapA, lines 173-183: the arguments the closure calls bodyA with.
wrapAArgs(t) == IF takesADoneChannel(t) THEN << "Done" >> ELSE <<>>

\* wrapA, lines 176 and 182: out[0].Interface().([]byte) panics unless the
\* result's dynamic type is []byte itself.
AssertBytesPanics(t) == t.out[1] # "[]byte"

\* wrapB, lines 202-210: the arguments the closure calls bodyB with.
wrapBArgs(t) ==
    IF takesBytesAndDone(t) THEN << "[]byte", "Done" >> ELSE << "[]byte" >>

\* NewCompoundBeforeSuiteNode, line 57: wrapA panics or returns the closure.
wrapAValidate ==
    /\ adapter.role = "A" /\ adapter.stage = "new"
    /\ adapter' = [adapter EXCEPT !.stage =
                     IF wrapAAccepts(adapter.body) THEN "constructed" ELSE "rejected"]
    /\ UNCHANGED fleetVars

\* NewCompoundBeforeSuiteNode, line 58: wrapB panics or returns the closure.
wrapBValidate ==
    /\ adapter.role = "B" /\ adapter.stage = "new"
    /\ adapter' = [adapter EXCEPT !.stage =
                     IF wrapBAccepts(adapter.body) THEN "constructed" ELSE "rejected"]
    /\ UNCHANGED fleetVars

\* The closure wrapA returned runs: lines 173-183.
wrapACall ==
    /\ adapter.role = "A" /\ adapter.stage = "constructed"
    /\ adapter' = [adapter EXCEPT !.stage =
                     IF \/ CallPanics(adapter.body, wrapAArgs(adapter.body))
                        \/ AssertBytesPanics(adapter.body)
                     THEN "panicked" ELSE "called"]
    /\ UNCHANGED fleetVars

\* The closure wrapB returned runs: lines 202-210.
wrapBCall ==
    /\ adapter.role = "B" /\ adapter.stage = "constructed"
    /\ adapter' = [adapter EXCEPT !.stage =
                     IF CallPanics(adapter.body, wrapBArgs(adapter.body))
                     THEN "panicked" ELSE "called"]
    /\ UNCHANGED fleetVars

\* A body of any shape is handed to the constructor of an idle node.
ShapeInit ==
    /\ InitFleet(1, { 1 })
    /\ bodyA = <<>>
    /\ Unmarshal(server).State = RemoteStateStateInvalid
    /\ adapter \in { a \in Adapters : a.stage = "new" }

ShapeNext ==
    \/ wrapAValidate
    \/ wrapBValidate
    \/ wrapACall
    \/ wrapBCall

ShapeSpec == ShapeInit /\ [][ShapeNext]_vars

\* The record a node decoded from its last GET: r of line 123, the zero
\* RemoteState unless a body was decoded into it.
Decoded(n) ==
    IF lastGet[n].resp = "decoded"
    THEN Unmarshal(lastGet[n].body)
    ELSE RemoteState(<<>>, RemoteStateStateInvalid)

\* The node's last GET was answered by a record of status s.
Observed(n, s) == lastGet[n].resp = "decoded" /\ Decoded(n).State = s

\* The followers of the fleet.
Followers == fleet \ { 1 }

(* ------------------------------- types --------------------------------- *)

Wires == { ToJSON(RemoteState(d, s)) : d \in Bytes, s \in RemoteStateState }

TypeOK ==
    /\ totalGinkgoNodes \in 1..MaxNodes
    /\ fleet \subseteq Ordinals
    /\ bodyA \in Bytes
    /\ server \in Wires
    /\ pc \in [Ordinals -> { "NotStarted", "RunningA", "PublishA", "AwaitingA",
                             "RunningB", "Done" }]
    /\ data \in [Ordinals -> Bytes]
    /\ outcome \in [Ordinals -> RunnerOutcomes \cup { SpecStateInvalid }]
    /\ outcomeA \in [Ordinals -> RunnerOutcomes \cup { SpecStateInvalid }]
    /\ lateA \in BOOLEAN
    /\ ranA \in [Ordinals -> BOOLEAN]
    /\ \A n \in Ordinals : Len(calledB[n]) <= 1 /\ Len(posts[n]) <= 1
    /\ \A n \in Ordinals :
         /\ lastGet[n].resp \in { r.kind : r \in Responses } \cup { "none" }
         /\ lastGet[n].resp = "decoded" => lastGet[n].body \in Wires
    /\ expired \in BOOLEAN
    /\ runResult \in [Ordinals -> { "none", "true", "false" }]
    /\ outcomeB \in [Ordinals -> { SpecStateInvalid } \cup RunnerOutcomes]
    /\ adapter \in Adapters
    /\ \A n \in Ordinals :
         /\ \A i \in 1..Len(writes[n]) : writes[n][i] \in { "wrapA", "waitForA" }
         /\ \A i \in 1..Len(reads[n]) : reads[n][i] \in { "runA", "wrapB" }

(* ------------------------------- claims -------------------------------- *)

\* Phase A has failed on the producer: runnerA.run returned another outcome
\* than Passed.
ProducerFailed == outcomeA[1] \in RunnerOutcomes \ { SpecStatePassed }

\* C1: only the node of ordinal 1 ever runs the producer body or POSTs a
\* record; a node of another ordinal never does either, it only issues GETs.
C1_OnlyNodeOneProduces ==
    \A n \in Ordinals :
        /\ (ranA[n] \/ posts[n] # <<>>) => n = 1
        /\ n # 1 /\ pc[n] \notin { "NotStarted", "AwaitingA" }
             => lastGet[n].resp # "none"

\* C1 witness: node 1 ran the producer body and POSTed while a follower has
\* issued a GET.
C1_Witness ==
    /\ ranA[1] /\ posts[1] # <<>>
    /\ \E n \in Followers : lastGet[n].resp # "none" /\ ~ranA[n] /\ posts[n] = <<>>

\* C2: phase B starts on a node only with phase A's outcome Passed there (on
\* a follower: it read a record of status Passed); with any other outcome of
\* phase A Run stops and the consumer body is never called.
C2_PhaseBOnlyAfterPassed ==
    \A n \in Ordinals :
        /\ (pc[n] = "RunningB" \/ calledB[n] # <<>>)
             => /\ outcomeA[n] = SpecStatePassed
                /\ n = 1 => ranA[n]
                /\ n # 1 => Observed(n, RemoteStateStatePassed)
        /\ outcomeA[n] \notin { SpecStateInvalid, SpecStatePassed }
             => pc[n] \in { "PublishA", "Done" } /\ calledB[n] = <<>>

\* C2 witness: one follower stopped after a phase A that did not pass,
\* another has called the consumer body after reading a Passed record.
C2_Witness ==
    /\ \E n \in Followers :
         pc[n] = "Done" /\ outcomeA[n] = SpecStateFailed /\ calledB[n] = <<>>
    /\ \E n \in Followers : calledB[n] # <<>>

\* C3 as stated: with phase A failed on the producer of a fleet of several
\* nodes, every follower whose wait is over reports the failure
\* "BeforeSuite on Node 1 failed", and no follower runs phase B.
C3_Original ==
    (ProducerFailed /\ totalGinkgoNodes > 1) =>
        \A f \in Followers :
            /\ pc[f] = "Done" =>
                 outcome[f] = SpecStateFailed /\ failure[f].Message = ProducerFailedMessage
            /\ pc[f] # "RunningB" /\ calledB[f] = <<>>

\* C3 amended: with phase A failed on the producer of a fleet of several
\* nodes, every follower whose wait is over reports phase A as failed, with
\* the message "BeforeSuite on Node 1 failed" exactly when the wait ended on a
\* record of status Failed, and no follower runs phase B.
C3_FollowersReportFailure ==
    (ProducerFailed /\ totalGinkgoNodes > 1) =>
        \A f \in Followers :
            /\ pc[f] = "Done" =>
                 /\ outcome[f] = SpecStateFailed
                 /\ outcomeA[f] = SpecStateFailed
                 /\ failure[f].Location = "codeLocation"
                 /\ Observed(f, RemoteStateStateFailed)
                      <=> failure[f].Message = ProducerFailedMessage
            /\ pc[f] # "RunningB" /\ calledB[f] = <<>>

\* C3 witness: the producer failed and a follower ended its wait on the
\* record of that failure.
C3_Witness ==
    /\ ProducerFailed /\ totalGinkgoNodes > 1
    /\ \E f \in Followers :
         /\ pc[f] = "Done"
         /\ Observed(f, RemoteStateStateFailed)
         /\ failure[f].Message = ProducerFailedMessage

\* Every node keeps running: Run is entered, the runners return (they bound
\* their bodies by the timeout), and http.Post and http.Get return.
Fairness == \A n \in Ordinals : WF_vars(n \in fleet /\ NodeStep(n))

FairSpec == Spec /\ Fairness

\* The scenario of C4: a fleet of three nodes whose producer passed phase A.
\* Its payload P is bodyA.
ProducerPassedOfThree == totalGinkgoNodes = 3 /\ outcomeA[1] = SpecStatePassed

\* C4 as stated, for the followers whose Run is over: with three nodes and
\* the producer passing phase A with payload P, followers 2 and 3 have each
\* observed Passed, received P and run phase B with P.
C4_Original ==
    ProducerPassedOfThree =>
        \A f \in { 2, 3 } :
            pc[f] = "Done" =>
                /\ Observed(f, RemoteStateStatePassed)
                /\ data[f] = bodyA
                /\ calledB[f] = << bodyA >>

\* What holds of followers 2 and 3 in the scenario of C4: one that observed
\* Passed received P and runs phase B with P; one whose Run is over without
\* that ended its wait on a transport error or a Disappeared record, and did
\* not run phase B.
C4_Safe ==
    ProducerPassedOfThree =>
        \A f \in { 2, 3 } :
            /\ Observed(f, RemoteStateStatePassed) =>
                 /\ Decoded(f).Data = bodyA
                 /\ data[f] = bodyA
                 /\ outcomeA[f] = SpecStatePassed
                 /\ pc[f] \in { "RunningB", "Done" }
                 /\ pc[f] = "Done" => calledB[f] = << bodyA >>
            /\ (pc[f] = "Done" /\ ~Observed(f, RemoteStateStatePassed)) =>
                 /\ calledB[f] = <<>>
                 /\ outcome[f] = SpecStateFailed
                 /\ \/ lastGet[f].resp \in { "networkError", "notOK", "readError",
                                            "decodeError" }
                    \/ Observed(f, RemoteStateStateDisappeared)

\* C4 amended: in the scenario of C4 a follower that observes Passed receives
\* P and then runs phase B with P, and once the producer's record is at the
\* endpoint the Run of each follower ends: in phase B with P, or in a failure
\* of phase A after a transport error or a Disappeared record.
C4_FollowersReceivePayload ==
    /\ []C4_Safe
    /\ (totalGinkgoNodes = 3 /\ Unmarshal(server).State = RemoteStateStatePassed)
           ~> (pc[2] = "Done" /\ pc[3] = "Done")

\* C4 witness: both followers of a fleet of three ran phase B with the
\* producer's payload, which is not empty.
C4_Witness ==
    /\ ProducerPassedOfThree
    /\ bodyA # <<>>
    /\ \A f \in { 2, 3 } :
         Observed(f, RemoteStateStatePassed) /\ calledB[f] = << bodyA >>

\* C5: the POST is attempted only after runnerA.run returned on the
\* producer, and a follower observes Passed or Failed only after that, the
\* status observed being that of phase A's outcome.
C5_PublishAfterPhaseA ==
    /\ posts[1] # <<>> => ranA[1] /\ outcomeA[1] \in RunnerOutcomes
    /\ \A f \in Followers :
         \A s \in { RemoteStateStatePassed, RemoteStateStateFailed } :
             Observed(f, s) =>
                 /\ ranA[1]
                 /\ outcomeA[1] \in RunnerOutcomes
                 /\ posts[1] # <<>>
                 /\ s = RemoteStateStatePassed <=> outcomeA[1] = SpecStatePassed

\* C5 witness: one follower has observed the record of a phase A that timed
\* out on the producer.
C5_Witness ==
    \E f \in Followers :
        Observed(f, RemoteStateStateFailed) /\ outcomeA[1] = SpecStateTimedOut

\* C6: a fleet of one node does no network I/O: no POST and no GET; phase A
\* runs on the node itself, and phase B only if phase A passed.
C6_SingleNodeNoNetwork ==
    totalGinkgoNodes = 1 =>
        /\ \A n \in Ordinals : posts[n] = <<>> /\ lastGet[n] = NoGet
        /\ Unmarshal(server).State \notin { RemoteStateStatePassed, RemoteStateStateFailed }
        /\ pc[1] \in { "PublishA", "RunningB", "Done" } => ranA[1]
        /\ (pc[1] = "RunningB" \/ calledB[1] # <<>>) => outcomeA[1] = SpecStatePassed
        /\ (pc[1] = "Done" /\ outcomeA[1] # SpecStatePassed) => calledB[1] = <<>>

\* C6 witness: the single node ran both phases.
C6_Witness ==
    /\ totalGinkgoNodes = 1
    /\ pc[1] = "Done" /\ ranA[1] /\ calledB[1] = << bodyA >>

\* C7 as stated: the runner timeout ends the wait.  A follower that is
\* still polling when the timeout has elapsed reports a timeout failure of
\* phase A: it does not go on to phase B.
C7_Original ==
    [][ \A n \in Followers :
          (expired /\ pc[n] = "AwaitingA") => pc'[n] # "RunningB" ]_vars

\* C8: a GET that fails (a network error or a response that is not 200)
\* ends the follower's wait at once: phase A is reported failed with the
\* message "Failed to fetch BeforeSuite state" and phase B is not run.
C8_FetchFailureEndsWait ==
    \A n \in Ordinals :
        lastGet[n].resp \in { "networkError", "notOK" } =>
            /\ pc[n] = "Done"
            /\ outcome[n] = SpecStateFailed
            /\ failure[n] = WaitFailure("Failed to fetch BeforeSuite state")
            /\ calledB[n] = <<>>
            /\ data[n] = <<>>

\* C8 witness: a follower got a response that is not 200 while the producer's
\* Passed record was at the endpoint.
C8_Witness ==
    \E n \in Followers :
        /\ lastGet[n].resp = "notOK"
        /\ Unmarshal(server).State = RemoteStateStatePassed

\* C9: every record the producer POSTs has the status Passed or Failed:
\* Passed exactly when phase A's outcome is Passed.
C9_PublishedStatusTerminal ==
    \A n \in Ordinals :
        \A i \in 1..Len(posts[n]) :
            LET r == Unmarshal(posts[n][i])
            IN  /\ r.State \in { RemoteStateStatePassed, RemoteStateStateFailed }
                /\ r.State = RemoteStateStatePassed <=> outcomeA[n] = SpecStatePassed
                /\ r.State = RemoteStateStateFailed
                     <=> outcomeA[n] \in { SpecStateFailed, SpecStateTimedOut }

\* C9 witness: the producer POSTed the record of a phase A that timed out.
C9_Witness ==
    /\ posts[1] # <<>>
    /\ outcomeA[1] = SpecStateTimedOut
    /\ Unmarshal(posts[1][1]).State = RemoteStateStateFailed

\* The payload a node holds when phase A passed there: on node 1 the bytes
\* the producer body returned, on a follower the Data of the record it read.
PayloadOf(n) == IF n = 1 THEN bodyA ELSE Decoded(n).Data

\* C10: node.data is set before the node's phase B starts and not written
\* after; the consumer body is called with node.data: the producer body's
\* bytes on node 1, the Data of the Passed record read on a follower.
C10_PayloadSetBeforeConsumer ==
    \A n \in Ordinals :
        /\ pc[n] = "RunningB" => data[n] = PayloadOf(n) /\ calledB[n] = <<>>
        /\ calledB[n] # <<>> =>
             /\ pc[n] = "Done"
             /\ calledB[n] = << PayloadOf(n) >>
             /\ data[n] = PayloadOf(n)

\* C10 witness: the producer and a follower called the consumer body with a
\* payload that is not empty.
C10_Witness ==
    /\ calledB[1] = << bodyA >> /\ bodyA # <<>>
    /\ \E f \in Followers : calledB[f] = << Decoded(f).Data >> /\ data[f] # <<>>

\* C11: a record of status Passed at the endpoint is the producer's one POST,
\* carrying the bytes phase A returned on node 1, and every follower whose
\* phase A passed read exactly that record and holds exactly those bytes.
C11_PassedRecordImmutable ==
    /\ Unmarshal(server).State = RemoteStateStatePassed =>
         /\ posts[1] = << server >>
         /\ outcomeA[1] = SpecStatePassed
         /\ Unmarshal(server).Data = bodyA
    /\ \A f \in Followers :
         outcomeA[f] = SpecStatePassed =>
            /\ Observed(f, RemoteStateStatePassed)
            /\ lastGet[f].body = server
            /\ Decoded(f).Data = bodyA
            /\ data[f] = bodyA

\* C11 witness: two followers read the Passed record at different times (one
\* has finished phase B, the other has not begun it) and both hold the
\* producer's payload, which is not empty.
C11_Witness ==
    /\ bodyA # <<>>
    /\ outcomeA[2] = SpecStatePassed /\ pc[2] = "Done"
    /\ outcomeA[3] = SpecStatePassed /\ pc[3] = "RunningB"
    /\ data[2] = bodyA /\ data[3] = bodyA

\* Passed, lines 145-147.
Passed(n) == outcome[n] = SpecStatePassed

\* C12: once Run has returned on a node, the result is phase A's outcome
\* and failure when phase A did not pass (phase B not run) and phase B's
\* when it did; Passed() holds exactly when Run returned true, which is
\* exactly when phase A and phase B both passed on the node.
C12_ResultReflectsPhases ==
    \A n \in fleet :
        /\ runResult[n] # "none" <=> pc[n] = "Done"
        /\ pc[n] = "Done" =>
             /\ outcomeA[n] # SpecStatePassed =>
                  /\ outcome[n] = outcomeA[n]
                  /\ failure[n] # NoFailure
                  /\ calledB[n] = <<>> /\ outcomeB[n] = SpecStateInvalid
                  /\ runResult[n] = "false"
             /\ outcomeA[n] = SpecStatePassed =>
                  /\ calledB[n] # <<>>
                  /\ outcome[n] = outcomeB[n]
                  /\ failure[n] = RunnerFailure(outcomeB[n])
             /\ Passed(n) <=> runResult[n] = "true"
             /\ runResult[n] = "true" <=>
                  (outcomeA[n] = SpecStatePassed /\ outcomeB[n] = SpecStatePassed)

\* C12 witness: Run has returned on three nodes: true where both phases
\* passed, false where phase B timed out, false where phase A failed.
C12_Witness ==
    /\ runResult[1] = "true" /\ outcomeB[1] = SpecStatePassed
    /\ runResult[2] = "false" /\ outcomeA[2] = SpecStatePassed
    /\ outcomeB[2] = SpecStateTimedOut
    /\ runResult[3] = "false" /\ outcomeA[3] = SpecStateFailed
    /\ pc[3] = "Done"

\* The shapes the specification accepts: a producer () -> bytes or
\* (cancellationSignal) -> bytes, a consumer (bytes) -> void or
\* (bytes, cancellationSignal) -> void; bytes is []byte or a type of that
\* underlying type, the cancellation signal is the Done channel.
IsBytes(t) == t \in { "[]byte", "MyBytes" }

ValidShape(role, t) ==
    /\ t.kind = "Func"
    /\ IF role = "A"
       THEN /\ t.in \in { <<>>, << "Done" >> }
            /\ Len(t.out) = 1 /\ IsBytes(t.out[1])
       ELSE /\ Len(t.in) \in { 1, 2 }
            /\ IsBytes(t.in[1])
            /\ Len(t.in) = 2 => t.in[2] = "Done"
            /\ t.out = <<>>

\* C13 as stated: a body of an invalid shape is rejected when the node is
\* constructed, and the closure built for an accepted body never fails
\* when it is called.
C13_Original ==
    /\ (adapter.stage # "new" /\ ~ValidShape(adapter.role, adapter.body))
          => adapter.stage = "rejected"
    /\ adapter.stage # "panicked"

\* C14: a follower whose last GET read a record of status Failed or
\* Disappeared has finished Run with phase A failed and phase B not run;
\* its failure carries the message of the status it read, the two messages
\* differ, and the location is phase A's code location.
C14_FailedAndDisappearedDiffer ==
    /\ ProducerFailedMessage # DisappearedMessage
    /\ \A f \in Followers :
         \A s \in { RemoteStateStateFailed, RemoteStateStateDisappeared } :
            Observed(f, s) =>
               /\ pc[f] = "Done"
               /\ outcomeA[f] = SpecStateFailed /\ outcome[f] = SpecStateFailed
               /\ calledB[f] = <<>> /\ outcomeB[f] = SpecStateInvalid
               /\ failure[f].Location = "codeLocation"
               /\ failure[f].Message =
                    IF s = RemoteStateStateFailed
                    THEN ProducerFailedMessage ELSE DisappearedMessage

\* C14 witness: one follower read Failed and another read Disappeared.
C14_Witness ==
    /\ Observed(2, RemoteStateStateDisappeared)
    /\ Observed(3, RemoteStateStateFailed)
    /\ failure[2].Message = DisappearedMessage
    /\ failure[3].Message = ProducerFailedMessage

\* The GET failed in transport: no response or a status other than 200, a
\* body that could not be read, or one that could not be decoded.
TransportError(n) ==
    lastGet[n].resp \in { "networkError", "notOK", "readError", "decodeError" }

\* C15: a follower has left its poll loop only after a GET that read status
\* Passed, Failed or Disappeared or that failed in transport; a follower
\* whose last GET decoded a record of any other status is still polling,
\* with its outcome, failure and payload as they were before the wait.
C15_OnlyTerminalEndsWait ==
    \A f \in Followers :
        /\ pc[f] \in { "RunningB", "Done" } =>
             \/ TransportError(f)
             \/ \E s \in { RemoteStateStatePassed, RemoteStateStateFailed,
                          RemoteStateStateDisappeared } : Observed(f, s)
        /\ (\E s \in DefaultStates : Observed(f, s)) =>
             /\ pc[f] = "AwaitingA"
             /\ outcomeA[f] = SpecStateInvalid /\ outcome[f] = SpecStateInvalid
             /\ failure[f] = NoFailure
             /\ data[f] = <<>> /\ writes[f] = <<>>
             /\ runResult[f] = "none"

\* C15 witness: one follower polled the not-yet-published default record
\* and is still waiting while another has polled the producer's Passed
\* record and gone on.
C15_Witness ==
    /\ \E s \in DefaultStates : Observed(2, s)
    /\ pc[2] = "AwaitingA"
    /\ Observed(3, RemoteStateStatePassed)
    /\ pc[3] = "RunningB"

\* The producer's POST did not reach the endpoint.
PostLost == posts[1] # <<>> /\ server # posts[1][1]

\* The node has entered phase B.
InPhaseB(n) == pc[n] = "RunningB" \/ calledB[n] # <<>>

\* C16: once the producer has attempted its POST, delivered or lost, there
\* is that one POST and no other, the outcome and failure phase A left on
\* the node are those runnerA.run returned, and the producer enters phase B
\* exactly when runnerA.run returned Passed.
C16_PostFailureIgnored ==
    posts[1] # <<>> =>
        /\ Len(posts[1]) = 1
        /\ InPhaseB(1) <=> outcomeA[1] = SpecStatePassed
        /\ calledB[1] = <<>> =>
             /\ outcome[1] = outcomeA[1]
             /\ failure[1] = RunnerFailure(outcomeA[1])
        /\ ~InPhaseB(1) => pc[1] = "Done" /\ runResult[1] = "false"

\* C16 witness: the POST of a passing producer was lost, and the producer
\* has run phase B all the same.
C16_Witness ==
    /\ PostLost
    /\ outcomeA[1] = SpecStatePassed
    /\ calledB[1] = << bodyA >>
    /\ pc[1] = "Done"

\* C18: in a fleet of several nodes the producer has attempted no POST
\* before runA, and exactly one from then on: the POST is there when phase
\* B starts and when Run has returned, whatever phase A's outcome, also
\* when phase A failed and phase B is skipped.
C18_ExactlyOnePost ==
    totalGinkgoNodes > 1 =>
        /\ pc[1] \in { "NotStarted", "RunningA", "PublishA" } => posts[1] = <<>>
        /\ pc[1] \in { "RunningB", "Done" } =>
             /\ Len(posts[1]) = 1
             /\ Unmarshal(posts[1][1]).State = PublishedState(outcomeA[1])
        /\ calledB[1] # <<>> => Len(posts[1]) = 1
        /\ \A f \in Followers : posts[f] = <<>>

\* C18 witness: phase A failed on the producer of a fleet of two; the POST
\* was attempted and Run returned without phase B.
C18_Witness ==
    /\ totalGinkgoNodes = 2
    /\ outcomeA[1] = SpecStateFailed
    /\ Len(posts[1]) = 1
    /\ pc[1] = "Done" /\ calledB[1] = <<>>

\* C17 as stated: during one Run node.data is written at most twice and
\* read at most once, the read being phase B's.
C17_Original ==
    \A n \in fleet :
        /\ Len(writes[n]) <= 2
        /\ Len(reads[n]) <= 1
        /\ \A i \in 1..Len(reads[n]) : reads[n][i] = "wrapB"

\* C17 amended: during one Run node.data is written at most once, by
\* wrapA's closure on node 1 and by waitForA's adoption of a Passed record
\* on a follower; it is read at most twice: by runA for the record it POSTs,
\* on node 1 of a fleet of several nodes only, and then by phase B. No write
\* is outstanding on a node that is in phase B.
C17_WriteOnceReadTwice ==
    \A n \in fleet :
        /\ Len(writes[n]) <= 1
        /\ \A i \in 1..Len(writes[n]) :
             writes[n][i] = IF IsProducer(n) THEN "wrapA" ELSE "waitForA"
        /\ reads[n] \in { <<>>, << "runA" >>, << "wrapB" >>, << "runA", "wrapB" >> }
        /\ (n # 1 \/ totalGinkgoNodes = 1) => reads[n] \in { <<>>, << "wrapB" >> }
        /\ (n = 1 /\ totalGinkgoNodes > 1 /\ pc[n] \in { "RunningB", "Done" })
              => reads[n][1] = "runA"
        /\ InPhaseB(n) => Len(writes[n]) = 1 /\ ~(n = 1 /\ lateA)

\* C17 witness: the producer of a fleet of two read node.data for its POST
\* and again in phase B; the follower wrote it once and read it once.
C17_Witness ==
    /\ totalGinkgoNodes = 2
    /\ writes[1] = << "wrapA" >> /\ reads[1] = << "runA", "wrapB" >>
    /\ writes[2] = << "waitForA" >> /\ reads[2] = << "wrapB" >>

\* C19: a follower whose wait ended in failure has never written node.data,
\* which is still empty; a follower has written it only with the Data of a
\* record of status Passed, in the step that read that record.
C19_FailedWaitLeavesSlot ==
    \A f \in Followers :
        /\ (outcomeA[f] # SpecStateInvalid /\ outcomeA[f] # SpecStatePassed) =>
             /\ outcomeA[f] = SpecStateFailed /\ pc[f] = "Done"
             /\ data[f] = <<>> /\ writes[f] = <<>>
        /\ writes[f] # <<>> =>
             /\ Observed(f, RemoteStateStatePassed)
             /\ outcomeA[f] = SpecStatePassed
             /\ data[f] = Decoded(f).Data

\* C19 witness: one follower read a Failed record and another a
\* Disappeared record, each carrying bytes, and both slots are empty.
C19_Witness ==
    /\ Observed(2, RemoteStateStateFailed) /\ Decoded(2).Data # <<>>
    /\ Observed(3, RemoteStateStateDisappeared) /\ Decoded(3).Data # <<>>
    /\ pc[2] = "Done" /\ data[2] = <<>>
    /\ pc[3] = "Done" /\ data[3] = <<>>

\* C20: whatever totalGinkgoNodes is, a node whose ordinal is not 1 never
\* runs phase A itself and never POSTs, waits for phase A from the moment
\* Run starts, and has gone past the wait only after a GET; node 1 never
\* waits and never issues a GET.
C20_RoleByOrdinalAlone ==
    \A n \in fleet :
        /\ n # 1 =>
             /\ pc[n] \in { "NotStarted", "AwaitingA", "RunningB", "Done" }
             /\ ~ranA[n] /\ posts[n] = <<>> /\ reads[n] \in { <<>>, << "wrapB" >> }
             /\ pc[n] \in { "RunningB", "Done" } => lastGet[n] # NoGet
        /\ n = 1 =>
             /\ pc[n] # "AwaitingA"
             /\ lastGet[n] = NoGet
             /\ pc[n] \in { "RunningB", "Done" } => ranA[n]

\* C20 witness: with totalGinkgoNodes = 1 a node of ordinal 2, running
\* without any node 1, has issued a GET and ended its wait on it.
C20_Witness ==
    /\ totalGinkgoNodes = 1
    /\ fleet = { 2 }
    /\ lastGet[2] # NoGet
    /\ pc[2] = "Done"
    /\ posts[2] = <<>>

====
